---- MODULE Spec2Model ----
(***************************************************************************)
(* Model of the Diagonessis frontend.                                      *)
(*                                                                         *)
(*  - ApiService (services/apiService.ts): the token store kept in         *)
(*    localStorage, the axios request interceptor that attaches the bearer *)
(*    token, the response interceptor that refreshes the token on a 401    *)
(*    and replays the request, and logout().                               *)
(*                                                                         *)
(* A promise chain that is waiting for the network is a "task": the stack  *)
(* of request configs whose response interceptors are suspended, with the  *)
(* request of the topmost config on the wire.  A step of the model is one  *)
(* browser event: a user action, the arrival of a response, or the run of  *)
(* the callbacks of an arrived response up to their next network await.    *)
(*                                                                         *)
(*  - ChatApp (Pages/Chat.tsx, and the second copy of the component kept   *)
(*    in the repository, told apart by `variant`): the React state of the  *)
(*    chat view, the requests its handlers have outstanding with the       *)
(*    values their closures captured, and the backend's chats as far as    *)
(*    the responses depend on them.  Timestamps (lastMessage) and layout   *)
(*    state (sidebar, focus) are left out.                                 *)
(***************************************************************************)
EXTENDS Integers, Sequences, FiniteSets, TLC

\* Bounds of the exploration.
MaxTok == 2       \* tokens the backend may hand out are 1..MaxTok
MaxDepth == 2     \* refresh requests nested above a task's own request
MaxCalls == 1     \* API calls the views have outstanding at a time

MaxChats == 2     \* chats the backend ever holds (ids 1..MaxChats)
MaxMsgs == 4      \* messages the backend holds in all
MaxInFlight == 2  \* requests and timers of the chat view outstanding at a time
MaxExp == 1       \* latest expiry of a token and latest time of a mount
MaxAuth == 2      \* requests and timers of the auth view outstanding at a time
MaxOtpId == 1     \* otpIds and verification tokens the backend hands out

\* Chat.tsx line 348: message.slice(0, 30), message.length > 30.
TitleMax == 30
AgeMin == 1
AgeMax == 120
PasswordMin == 6
OtpLen == 6

VARIABLES
    store,        \* localStorage: accessToken, refreshToken, user (0: absent)
    task,         \* the promise chains waiting for the network, by slot
    redirected    \* window.location.href = '/' has been assigned

VARIABLES
    variant,          \* "Chat" (Pages/Chat.tsx) or "Copy" (the second copy)
    accessToken,      \* localStorage 'accessToken' as isAuthenticated reads it
    chats,            \* useState<Chat[]>
    activeChat,       \* useState<string>, 0 for ''
    message,          \* the draft in the input field
    isTyping,
    loading,
    error,            \* error # null
    deleteDialogOpen,
    chatToDelete,     \* 0 for null
    isNewUser,
    nav,              \* the path assigned to window.location.href, "" if none
    init,             \* where loadInitialData stands
    loads,            \* loadMessages calls waiting for their response
    creates,          \* createNewChat calls waiting for their response
    timers,           \* setTimeout(() => createNewChat(), 500) not yet fired
    del,              \* the deleteChat call waiting for its response
    send,             \* the sendMessage call waiting for its response
    srv               \* the backend's chats

apiVars == <<store, task, redirected>>
chatVars == <<variant, accessToken, chats, activeChat, message, isTyping, loading,
              error, deleteDialogOpen, chatToDelete, isNewUser, nav, init,
              loads, creates, timers, del, send, srv>>
\* The profile view (UserInfo).
VARIABLES
    userInfo,         \* formData, loading, error, success, showSnackbar
    update,           \* the updateUserProfile call waiting for its response
    userTimer,        \* setTimeout(() => location.href = '/Home', 1500) pending
    userNav           \* the path assigned to window.location.href, "" if none

userVars == <<userInfo, update, userTimer, userNav>>

\* The auth view (SignInUp).
VARIABLES
    formState,        \* useState<FormState>
    authReqs,         \* the auth requests waiting for their response
    signTimers,       \* the setTimeout callbacks not yet run
    signNav           \* the path given to navigate, "" if none

signVars == <<formState, authReqs, signTimers, signNav>>
viewVars == <<userVars, signVars>>
vars == <<apiVars, chatVars, viewVars>>

\* logout() calls started by the interceptor and still running: one run of
\* callbacks starts at most one per suspended interceptor.
MaxLogouts == MaxDepth

Tok == 1..MaxTok
CallSlots == 1..MaxCalls
SpawnSlots == (MaxCalls + 1)..(MaxCalls + MaxLogouts)
Slots == CallSlots \cup SpawnSlots

Last(s) == s[Len(s)]
Front(s) == SubSeq(s, 1, Len(s) - 1)

(***************************************************************************)
(* Token store: ApiService's private accessors of localStorage.            *)
(***************************************************************************)
NoStore == [access |-> 0, refresh |-> 0, user |-> 0]

getToken(st) == st.access

setToken(st, token) == [st EXCEPT !.access = token]

getRefreshToken(st) == st.refresh

setRefreshTokenNone(st, token) == st

setRefreshToken(st, token) == [st EXCEPT !.refresh = token]

clearTokensKeepAccess(st) == [st EXCEPT !.refresh = 0]

clearTokens(st) == [st EXCEPT !.access = 0, !.refresh = 0, !.user = 0]

(***************************************************************************)
(* A request config.  retry is the _retry mark of the response             *)
(* interceptor.  nRefresh and nReplay count the refresh calls and the      *)
(* replays the response interceptor made for this config.  The             *)
(* Authorization header is kept for the request on the wire only           *)
(* (task.auth): the header of a suspended config is overwritten (line      *)
(* 268) before the config is sent again.                                   *)
(***************************************************************************)
NewConfig(url) ==
    [url |-> url, retry |-> FALSE, nRefresh |-> 0, nReplay |-> 0]

\* this.api.interceptors.request.use: attach the stored access token to a
\* config whose Authorization header is hdr (0: none); the header sent.
RequestInterceptorNone(hdr, st) == hdr

RequestInterceptor(hdr, st) ==
    LET token == getToken(st)
    IN  IF token # 0 THEN token ELSE hdr

(***************************************************************************)
(* A task.  st: free | inflight (request on the wire) | resp (response     *)
(* arrived, callbacks not yet run) | done.  kind: api | logout; ui: the     *)
(* logout() was called by handleLogout.  frames: the configs, the           *)
(* task's own request first; every config but the last is suspended in     *)
(* the response interceptor at `await this.refreshToken(...)`.             *)
(* ans/tok: the response (ok | 401 | err; tok: the token pair of a         *)
(* refresh response, 0 when the body carries no data).                     *)
(* auth: the Authorization header of the request on the wire (0: none).    *)
(* sentAccess/sentRefresh: what the store held when the request on the     *)
(* wire was sent.  replayTok: the token of the refresh response that made  *)
(* the interceptor replay the request on the wire (0: not a replay).       *)
(* cause: how a finished call ended.                                       *)
(***************************************************************************)
IdleTask ==
    [st |-> "free", kind |-> "none", ui |-> FALSE, frames |-> <<>>,
     ans |-> "none", tok |-> 0, auth |-> 0, sentAccess |-> 0, sentRefresh |-> 0,
     replayTok |-> 0, cause |-> "none"]

\* this.api(config): the request interceptor runs, the request goes out.
\* hdr is the header the config carries before the interceptor runs.
Dispatch(tk, below, config, hdr, st, rtok) ==
    [tk EXCEPT !.st = "inflight",
               !.frames = below \o <<config>>,
               !.ans = "none", !.tok = 0,
               !.auth = RequestInterceptor(hdr, st),
               !.sentAccess = getToken(st),
               !.sentRefresh = getRefreshToken(st),
               !.replayTok = rtok]

\* A call of an ApiService method: this.api.post(url, data).
NewTask(kind, ui, st) ==
    Dispatch([IdleTask EXCEPT !.kind = kind, !.ui = ui], <<>>, NewConfig(kind), 0, st, 0)

(***************************************************************************)
(* What the callbacks of one arrived response do, up to the next network   *)
(* await: the new task, the new store, whether '/' was assigned, and how   *)
(* many logout() calls the response interceptor started (spawnStore: the   *)
(* store their request interceptor read).                                  *)
(***************************************************************************)
Outcome(tk, st, redirect, spawns, spawnStore) ==
    [task |-> tk, store |-> st, redirect |-> redirect, spawns |-> spawns,
     spawnStore |-> spawnStore]

\* The task's own request settled: the awaiting method returns or throws.
\* logout() swallows the error and clears the store in its finally block;
\* handleLogout then assigns '/'.
Settle(tk, st, cause, catches) ==
    LET done == [IdleTask EXCEPT !.st = "done", !.kind = tk.kind, !.ui = tk.ui,
                                 !.cause = cause]
    IN  IF tk.kind = "logout"
        THEN Outcome(done, clearTokens(st), tk.ui \/ catches > 0, catches, st)
        ELSE Outcome(done, st, catches > 0, catches, st)

\* The request on the wire is rejected to its caller.  Every suspended
\* response interceptor below it sees its `await this.refreshToken` throw:
\* catch (refreshError) { this.logout(); window.location.href = '/'; } and
\* then rejects its own request, down to the task's own request.
RejectToCaller(tk, st, cause) ==
    LET n == Len(tk.frames)
    IN  Settle(tk, st, IF n > 1 THEN "refreshFailed" ELSE cause, n - 1)

\* Line 257: refresh only on a 401 of a request not yet marked.
ShouldRefreshNoMark(ans, config) == ans = "401"

ShouldRefresh(ans, config) == ans = "401" /\ ~config.retry

\* Lines 264-269, after `await this.refreshToken` returned the body: store
\* the new tokens, set the header of the original request and replay it.
\* A body without data makes response.data.token throw a TypeError inside
\* the try block, which the catch handles like a failed refresh.
OnRefreshedReplayFirst(tk, st) ==
    LET n == Len(tk.frames)
        st2 == setRefreshToken(setToken(st, tk.tok), tk.tok)
        orig == [tk.frames[n - 1] EXCEPT !.nReplay = @ + 1]
    IN  IF tk.tok = 0
        THEN RejectToCaller(tk, st, "refreshFailed")
        ELSE Outcome(Dispatch(tk, SubSeq(tk.frames, 1, n - 2), orig, tk.auth, st, tk.tok),
                     st2, FALSE, 0, st2)

OnRefreshed(tk, st) ==
    LET n == Len(tk.frames)
        st2 == setRefreshToken(setToken(st, tk.tok), tk.tok)
        orig == [tk.frames[n - 1] EXCEPT !.nReplay = @ + 1]
    IN  IF tk.tok = 0
        THEN RejectToCaller(tk, st, "refreshFailed")
        ELSE Outcome(Dispatch(tk, SubSeq(tk.frames, 1, n - 2), orig, tk.tok, st2, tk.tok),
                     st2, FALSE, 0, st2)

\* The response interceptor's success handler is the identity: the response
\* goes to the awaiting code, which is the interceptor of the config below
\* (for a refresh request) or the caller of the ApiService method.
OnFulfilled(tk, st) ==
    IF Len(tk.frames) > 1 THEN OnRefreshed(tk, st) ELSE Settle(tk, st, "ok", 0)

\* The response interceptor's error handler, lines 254-278.  The refresh
\* request is sent through the same axios instance.  Refresh requests
\* nested deeper than MaxDepth are folded: the config just marked is the
\* same as the suspended refresh config below it.
OnRejected(tk, st) ==
    LET n == Len(tk.frames)
        top == Last(tk.frames)
        marked == [top EXCEPT !.retry = TRUE]
        refreshToken == getRefreshToken(st)
        waiting == [marked EXCEPT !.nRefresh = @ + 1]
        below == IF n > MaxDepth THEN Front(tk.frames)
                 ELSE Front(tk.frames) \o <<waiting>>
    IN  IF ShouldRefresh(tk.ans, top)
        THEN IF refreshToken # 0
             THEN Outcome(Dispatch(tk, below, NewConfig("refresh"), 0, st, 0),
                          st, FALSE, 0, st)
             ELSE RejectToCaller([tk EXCEPT !.frames = Front(@) \o <<marked>>],
                                 st, "noRefreshToken")
        ELSE RejectToCaller(tk, st, IF tk.ans = "401" THEN "retried401" ELSE "error")

Callbacks(tk, st) ==
    IF tk.ans = "ok" THEN OnFulfilled(tk, st) ELSE OnRejected(tk, st)

(***************************************************************************)
(* Actions of the API client.                                              *)
(***************************************************************************)
FreeSpawn == {s \in SpawnSlots : task[s].st = "free"}

\* The k lowest free slots take the logout() calls a callback run starts.
SpawnInto(k) == {s \in FreeSpawn : Cardinality({f \in FreeSpawn : f < s}) < k}

\* A view calls an ApiService method other than logout (getChats, ...).
StartCall(t) ==
    /\ task[t].st \in {"free", "done"}
    /\ task' = [task EXCEPT ![t] = NewTask("api", FALSE, store)]
    /\ UNCHANGED <<store, redirected, chatVars, viewVars>>

\* handleLogout: await apiService.logout(), then window.location.href = '/'.
StartLogout(t) ==
    /\ task[t].st \in {"free", "done"}
    /\ task' = [task EXCEPT ![t] = NewTask("logout", TRUE, store)]
    /\ UNCHANGED <<store, redirected, chatVars, viewVars>>

\* The response to the request on the wire arrives (or the 10 s timeout of
\* the axios instance fires: err).  Only a refresh response carries tokens.
\* The browser runs the callbacks of one response before it delivers the
\* next; an answer that would start more logout() calls than there are
\* slots is outside the explored bound.
Deliver(t, a, g) ==
    /\ task[t].st = "inflight"
    /\ \A s \in Slots : task[s].st # "resp"
    /\ g # 0 => (a = "ok" /\ Last(task[t].frames).url = "refresh")
    /\ LET tk == [task[t] EXCEPT !.st = "resp", !.ans = a, !.tok = g]
       IN  /\ Callbacks(tk, store).spawns <= Cardinality(FreeSpawn)
           /\ task' = [task EXCEPT ![t] = tk]
    /\ UNCHANGED <<store, redirected, chatVars, viewVars>>

\* The callbacks of the arrived response run up to the next network await.
\* A logout() started by the interceptor is not awaited: it is a task of
\* its own, and its slot is free again when it has finished.
Handle(t) ==
    /\ task[t].st = "resp"
    /\ LET out == Callbacks(task[t], store)
           mine == IF t \in SpawnSlots /\ out.task.st = "done" THEN IdleTask
                   ELSE out.task
           into == SpawnInto(out.spawns)
       IN  /\ task' = [s \in Slots |->
                          IF s = t THEN mine
                          ELSE IF s \in into
                               THEN NewTask("logout", FALSE, out.spawnStore)
                               ELSE task[s]]
           /\ store' = out.store
           /\ redirected' = (redirected \/ out.redirect)
    /\ UNCHANGED <<chatVars, viewVars>>

\* The access token in localStorage, by what isAuthenticated can make of
\* it: none stored, one whose payload cannot be decoded, one whose payload
\* has no exp, or one that expires at exp.
NoToken == [kind |-> "none", exp |-> 0]
Tokens ==
    {NoToken, [kind |-> "malformed", exp |-> 0], [kind |-> "noexp", exp |-> 0]}
        \cup {[kind |-> "jwt", exp |-> e] : e \in 0..MaxExp}

\* Date.now() / 1000 at the call.
Times == 0..MaxExp

\* isAuthenticated taking every decodable token for a valid one.
isAuthenticatedNoExpiry(token, currentTime) == token.kind \in {"noexp", "jwt"}

\* ApiService.isAuthenticated: `!token` returns false, a throw of split,
\* atob or JSON.parse is caught and returns false, and `undefined >
\* currentTime` is false.
isAuthenticated(token, currentTime) ==
    IF token.kind = "none" THEN FALSE
    ELSE IF token.kind = "malformed" THEN FALSE
    ELSE IF token.kind = "noexp" THEN FALSE
    ELSE token.exp > currentTime

\* The chat view is not mounted.
NoSend == [st |-> "idle", chat |-> 0, text |-> <<>>, pair |-> <<>>]
NoDel == [st |-> "idle", target |-> 0, chats |-> <<>>, active |-> 0]
ChatIds == 1..MaxChats

ChatAtRest ==
    /\ variant = "Chat"
    /\ chats = <<>> /\ activeChat = 0 /\ message = <<>>
    /\ isTyping = FALSE /\ loading = TRUE /\ error = FALSE
    /\ deleteDialogOpen = FALSE /\ chatToDelete = 0 /\ isNewUser = FALSE
    /\ nav = "" /\ init = "start"
    /\ loads = <<>> /\ creates = 0 /\ timers = 0
    /\ del = NoDel /\ send = NoSend
    /\ srv = [c \in ChatIds |-> [used |-> FALSE, live |-> FALSE, title |-> <<>>,
                                 msgs |-> <<>>]]

ChatUnmounted == accessToken = NoToken /\ ChatAtRest

\* The profile view is not mounted: useState's initial values, lines 23-33.
NoFormData == [name |-> <<>>, age |-> <<>>, profession |-> <<>>, address |-> <<>>]
NoUpdate == [st |-> "idle", data |-> NoFormData]

UserInfoUnmounted ==
    /\ userInfo = [formData |-> NoFormData, loading |-> FALSE, error |-> "",
                   success |-> "", showSnackbar |-> FALSE]
    /\ update = NoUpdate /\ userTimer = FALSE /\ userNav = ""

\* initialFormState, lines 39-52; otpId and verificationToken 0 for ''.
initialFormState ==
    [email |-> <<>>, otp |-> <<>>, password |-> <<>>, newPassword |-> <<>>,
     mode |-> "signin", otpSent |-> FALSE, otpId |-> 0, verificationToken |-> 0,
     loading |-> FALSE, error |-> "", success |-> "", showSnackbar |-> FALSE]

NoTimers == [home |-> FALSE, userInfo |-> FALSE, reset |-> 0]

SignUnmounted ==
    /\ formState = initialFormState
    /\ authReqs = <<>> /\ signTimers = NoTimers /\ signNav = ""

ViewsUnmounted == UserInfoUnmounted /\ SignUnmounted

ApiInit ==
    /\ store \in {NoStore,
                  [access |-> 1, refresh |-> 1, user |-> 1],
                  [access |-> 1, refresh |-> 1, user |-> 0]}
    /\ task = [s \in Slots |-> IdleTask]
    /\ redirected = FALSE
    /\ ChatUnmounted
    /\ ViewsUnmounted

ApiNext ==
    \/ \E t \in CallSlots : StartCall(t)
    \/ \E t \in CallSlots : StartLogout(t)
    \/ \E t \in Slots, a \in {"ok", "401", "err"}, g \in 0..MaxTok : Deliver(t, a, g)
    \/ \E t \in Slots : Handle(t)

ApiSpec == ApiInit /\ [][ApiNext]_vars

\* Every request is answered or times out, and the callbacks of an arrived
\* response run.
ApiFair ==
    /\ \A t \in Slots : WF_vars(Handle(t))
    /\ \A t \in Slots :
          SF_vars(\E a \in {"ok", "401", "err"}, g \in 0..MaxTok : Deliver(t, a, g))

ApiLive == ApiSpec /\ ApiFair

(***************************************************************************)
(* Properties of the API client.                                           *)
(***************************************************************************)
OnWire(t) == task[t].st \in {"inflight", "resp"}

\* The callbacks of the response to slot t's request run in this step.
Handled(t) == task[t].st = "resp" /\ task'[t] # task[t]

Settled(tk) == tk.st \in {"done", "free"}

LogoutRunning == \E s \in Slots : task[s].kind = "logout" /\ OnWire(s)

\* C4: for every request config the response interceptor calls the refresh
\* endpoint at most once and replays the config at most once, and a 401 on
\* the replayed request is rejected to the caller: the chain of that
\* request ends without a further refresh or replay.
C4_OneRefreshOneReplay ==
    [][\A t \in Slots :
          /\ \A i \in DOMAIN task'[t].frames :
                /\ task'[t].frames[i].nRefresh <= 1
                /\ task'[t].frames[i].nReplay <= 1
          /\ (Handled(t) /\ task[t].ans = "401" /\ Last(task[t].frames).nReplay = 1)
                => /\ Settled(task'[t])
                   /\ (Len(task[t].frames) = 1 /\ task[t].kind = "api")
                         => task'[t].cause = "retried401"]_vars

\* A replayed API call was answered 401 and rejected to its caller.
C4_Witness ==
    \E t \in CallSlots : task[t].st = "done" /\ task[t].cause = "retried401"

\* C5: a request replayed after a successful refresh goes out after both
\* new tokens were written to the store, and carries the new access token.
C5_ReplayCarriesNewToken ==
    \A t \in Slots :
        (OnWire(t) /\ task[t].replayTok # 0)
            => /\ task[t].sentAccess = task[t].replayTok
               /\ task[t].sentRefresh = task[t].replayTok
               /\ task[t].auth = task[t].replayTok

\* An API call sent with token 1 is on the wire again, replayed after a
\* refresh that returned token 2.
C5_Witness ==
    \E t \in CallSlots :
        /\ task[t].st = "inflight" /\ task[t].kind = "api"
        /\ Len(task[t].frames) = 1 /\ task[t].frames[1].nReplay = 1
        /\ task[t].replayTok = 2 /\ store.access = 2 /\ store.refresh = 2

\* C6: whenever the refresh call of the 401 handler fails, the store is
\* eventually empty and '/' has been assigned.
C6_RefreshFailureLogsOut ==
    \A t \in Slots :
        (task[t].st = "resp" /\ Len(task[t].frames) > 1 /\ task[t].ans = "err")
            ~> (store = NoStore /\ redirected)

C8_ReplayFailureLogsOut ==
    [][\A t \in Slots :
          (Handled(t) /\ task[t].ans = "401" /\ task[t].replayTok # 0)
             => \/ (store'.access = 0 /\ store'.refresh = 0)
                \/ LogoutRunning']_vars

\* C9: every request on the wire carries the access token the store held
\* when it was sent, and no Authorization header if it held none.
C9_BearerIsStoredToken ==
    \A t \in Slots : OnWire(t) => task[t].auth = task[t].sentAccess

\* A replayed call, a refresh request and a logout request have gone out
\* with a stored token; here a logout request carries a refreshed token.
C9_Witness ==
    \E t \in Slots :
        /\ task[t].st = "inflight" /\ Last(task[t].frames).url = "logout"
        /\ task[t].auth = 2

\* C10: the handling of a 401 response terminates for every pattern of
\* backend answers: the chain of the request that received it ends.
C10_HandlingTerminates ==
    \A t \in Slots :
        (task[t].st = "resp" /\ task[t].ans = "401") ~> Settled(task[t])

(***************************************************************************)
(* The chat view.  Text is a sequence of characters.                       *)
(***************************************************************************)
Min(a, b) == IF a < b THEN a ELSE b

Hi == <<"H", "i">>
NewChatTitle == <<"N", "e", "w", " ", "C", "h", "a", "t">>
Reply == <<"o", "k">>

\* What the user may type.
Drafts == {<<>>, <<" ">>, <<" ">> \o Hi}

\* String.prototype.trim
RECURSIVE TrimLeft(_)
TrimLeft(s) == IF s # <<>> /\ s[1] = " " THEN TrimLeft(Tail(s)) ELSE s

RECURSIVE TrimRight(_)
TrimRight(s) == IF s # <<>> /\ Last(s) = " " THEN TrimRight(Front(s)) ELSE s

trim(s) == TrimRight(TrimLeft(s))

\* String.prototype.slice(0, n)
slice(s, n) == SubSeq(s, 1, Min(n, Len(s)))

\* Line 348: message.slice(0, 30) + (message.length > 30 ? '...' : '')
TitleFrom(m) ==
    slice(m, TitleMax) \o (IF Len(m) > TitleMax THEN <<".", ".", ".">> ELSE <<>>)

\* The backend's messages of a chat: a user message and the reply to it.
SrvPair(c, k, content) ==
    << [id |-> 10 * c + k + 1, content |-> content, role |-> "user"],
       [id |-> 10 * c + k + 2, content |-> Reply, role |-> "assistant"] >>

\* loadMessages, lines 223-228: an API message as the view keeps it.
FormatMessage(msg) ==
    [id |-> msg.id, text |-> msg.content, isUser |-> (msg.role = "user")]

FormatMessages(msgs) == [i \in DOMAIN msgs |-> FormatMessage(msgs[i])]

\* loadChats, lines 194-200: a chat of the list response as the view keeps it.
FormatChat(c) ==
    [id |-> c,
     title |-> srv[c].title,
     messages |-> <<>>,
     messageCount |-> Len(srv[c].msgs)]

\* The ids of the backend's live chats in the order of the list response.
RECURSIVE LiveFrom(_)
LiveFrom(c) ==
    IF c > MaxChats THEN <<>>
    ELSE (IF srv[c].live THEN <<c>> ELSE <<>>) \o LiveFrom(c + 1)

ChatIndex(list, id) == {i \in DOMAIN list : list[i].id = id}

\* chats.find(c => c.id === id); the caller tests that there is one.
Find(list, id) == list[CHOOSE i \in ChatIndex(list, id) :
                           \A j \in ChatIndex(list, id) : i <= j]

\* list.filter(chat => chat.id !== id)
RECURSIVE Without(_, _)
Without(list, id) ==
    IF list = <<>> THEN <<>>
    ELSE (IF Head(list).id # id THEN <<Head(list)>> ELSE <<>>)
             \o Without(Tail(list), id)

\* The auto-create effect (Chat.tsx lines 150-155) is due: React runs it
\* after the render that made its condition true, before the next event.
EffectDueNever == FALSE

EffectDue ==
    variant = "Chat" /\ isNewUser /\ Len(chats) = 0 /\ ~loading /\ nav = ""

\* The view takes events: it was not navigated away from and no effect is due.
Live == nav = "" /\ ~EffectDue

\* The user can reach the sidebar and the input: the spinner is not shown
\* and the modal delete dialog is closed.
UserCan == Live /\ init # "start" /\ ~loading /\ ~deleteDialogOpen

ChatInit ==
    /\ variant \in {"Chat", "Copy"}
    /\ accessToken \in Tokens
    /\ chats = <<>> /\ activeChat = 0 /\ message = <<>>
    /\ isTyping = FALSE /\ loading = TRUE /\ error = FALSE
    /\ deleteDialogOpen = FALSE /\ chatToDelete = 0 /\ isNewUser = FALSE
    /\ nav = "" /\ init = "start"
    /\ loads = <<>> /\ creates = 0 /\ timers = 0
    /\ del = NoDel /\ send = NoSend
    /\ \E n \in 0..MaxChats : \E full \in {{}, 1..n} :
          srv = [c \in ChatIds |->
                    [used |-> c <= n, live |-> c <= n,
                     title |-> IF c > n THEN <<>>
                               ELSE IF c \in full THEN Hi ELSE NewChatTitle,
                     msgs |-> IF c \in full THEN SrvPair(c, 0, Hi) ELSE <<>>]]
    /\ store = [access |-> 1, refresh |-> 1, user |-> 1]
    /\ task = [s \in Slots |-> IdleTask]
    /\ redirected = FALSE
    /\ ViewsUnmounted

(***************************************************************************)
(* Requests of the chat view.  loads holds the loadMessages calls in the   *)
(* order they were made, each [chat, by, read, msgs]: by says which        *)
(* handler awaits it (select: handleChatSelect, which                      *)
(* does nothing after it; init: loadChats inside loadInitialData; delete:  *)
(* deleteChat); read/msgs: the backend has read the chat's messages for    *)
(* the response.                                                           *)
(***************************************************************************)
LoadReq(c, by) ==
    [chat |-> c, by |-> by, read |-> FALSE, msgs |-> <<>>]

\* A sequence without its i-th element.
Remove(seq, i) == SubSeq(seq, 1, i - 1) \o SubSeq(seq, i + 1, Len(seq))

\* The requests and timers the view is waiting for.
InFlight ==
    Len(loads) + creates + timers
        + (IF del.st = "req" THEN 1 ELSE 0) + (IF send.st = "inflight" THEN 1 ELSE 0)

\* loadMessages(chatId) is called: the request goes out.
IssueLoad(c, by) ==
    /\ Len(loads) < MaxInFlight
    /\ loads' = Append(loads, LoadReq(c, by))

\* useEffect(() => { loadInitialData(); }, []), up to the profile request.
Mount(currentTime) ==
    /\ init = "start" /\ nav = ""
    /\ IF isAuthenticated(accessToken, currentTime)
       THEN /\ init' = "profile"
            /\ UNCHANGED <<nav, loading>>
       ELSE /\ nav' = "/"
            /\ loading' = FALSE
            /\ init' = "redirected"
    /\ UNCHANGED <<variant, accessToken, chats, activeChat, message, isTyping, error,
                   deleteDialogOpen, chatToDelete, isNewUser, loads, creates,
                   timers, del, send, srv, apiVars, viewVars>>

\* loadInitialData without the check of the profile's fields.
ProfileResponseNoGate(ok, complete) ==
    /\ init = "profile" /\ Live
    /\ IF ~ok
       THEN /\ error' = TRUE /\ loading' = FALSE /\ init' = "done"
       ELSE /\ init' = "chats"
            /\ UNCHANGED <<loading, error>>
    /\ UNCHANGED <<variant, accessToken, chats, activeChat, message, isTyping,
                   deleteDialogOpen, chatToDelete, isNewUser, nav, loads,
                   creates, timers, del, send, srv, apiVars, viewVars>>

\* loadInitialData after `await apiService.getUserProfile()`: lines 170-177.
ProfileResponse(ok, complete) ==
    /\ init = "profile" /\ Live
    /\ IF ~ok
       THEN /\ error' = TRUE /\ loading' = FALSE /\ init' = "done"
            /\ UNCHANGED nav
       ELSE IF ~complete
       THEN /\ nav' = "/user-info" /\ loading' = FALSE /\ init' = "redirected"
            /\ UNCHANGED error
       ELSE /\ init' = "chats"
            /\ UNCHANGED <<nav, loading, error>>
    /\ UNCHANGED <<variant, accessToken, chats, activeChat, message, isTyping,
                   deleteDialogOpen, chatToDelete, isNewUser, loads, creates,
                   timers, del, send, srv, apiVars, viewVars>>

\* loadChats after `await apiService.getChats()`, and, when it does not go
\* on to loadMessages, the rest of loadInitialData.  loadChats catches its
\* error and returns []; Chat.tsx then takes the user for a new one.
ChatsResponse(ok) ==
    /\ init = "chats" /\ Live
    /\ LET ids == LiveFrom(1)
           formattedChats == [i \in DOMAIN ids |-> FormatChat(ids[i])]
       IN  IF ok /\ formattedChats # <<>>
           THEN /\ chats' = formattedChats
                /\ activeChat' = formattedChats[1].id
                /\ IssueLoad(formattedChats[1].id, "init")
                /\ init' = "msgs"
                /\ UNCHANGED <<error, isNewUser, loading>>
           ELSE /\ chats' = IF ok THEN formattedChats ELSE chats
                /\ error' = IF ok THEN error ELSE TRUE
                /\ isNewUser' = IF variant = "Chat" THEN TRUE ELSE isNewUser
                /\ loading' = FALSE
                /\ init' = "done"
                /\ UNCHANGED <<activeChat, loads>>
    /\ UNCHANGED <<variant, accessToken, message, isTyping, deleteDialogOpen,
                   chatToDelete, nav, creates, timers, del, send, srv, apiVars, viewVars>>

\* The backend reads the messages of the chat for a message-list request.
ServerList(i) ==
    /\ ~loads[i].read /\ srv[loads[i].chat].live
    /\ loads' = [loads EXCEPT ![i] = [@ EXCEPT !.read = TRUE,
                                               !.msgs = srv[loads[i].chat].msgs]]
    /\ UNCHANGED <<variant, accessToken, chats, activeChat, message, isTyping, loading,
                   error, deleteDialogOpen, chatToDelete, isNewUser, nav, init,
                   creates, timers, del, send, srv, apiVars, viewVars>>

\* setChats(prev => prev.map(...)) of loadMessages, lines 230-234.
WithMessages(list, c, msgs) ==
    [i \in DOMAIN list |->
        IF list[i].id = c THEN [list[i] EXCEPT !.messages = msgs] ELSE list[i]]

\* loadMessages after `await apiService.getMessages(...)`, and what the
\* handler awaiting loadMessages does next: loadInitialData's finally,
\* deleteChat's finally, or nothing.
LoadResponse(i, ok) ==
    LET r == loads[i] IN
    /\ Live
    /\ ok => r.read
    /\ loads' = Remove(loads, i)
    /\ chats' = IF ok THEN WithMessages(chats, r.chat, FormatMessages(r.msgs))
                ELSE chats
    /\ error' = IF ok THEN error ELSE TRUE
    /\ loading' = IF r.by = "init" THEN FALSE ELSE loading
    /\ init' = IF r.by = "init" THEN "done" ELSE init
    /\ deleteDialogOpen' = IF r.by = "delete" THEN FALSE ELSE deleteDialogOpen
    /\ chatToDelete' = IF r.by = "delete" THEN 0 ELSE chatToDelete
    /\ del' = IF r.by = "delete" THEN NoDel ELSE del
    /\ UNCHANGED <<variant, accessToken, activeChat, message, isTyping, isNewUser, nav,
                   creates, timers, send, srv, apiVars, viewVars>>

\* Line 377: load the messages if they are not already loaded.
NeedsLoadAlways(chat) == TRUE

NeedsLoad(chat) == chat.messages = <<>> /\ chat.messageCount > 0

\* handleChatSelect(chatId), lines 371-380.
HandleChatSelect(c) ==
    /\ UserCan /\ ChatIndex(chats, c) # {}
    /\ activeChat' = c
    /\ IF NeedsLoad(Find(chats, c))
       THEN InFlight < MaxInFlight /\ IssueLoad(c, "select")
       ELSE UNCHANGED loads
    /\ UNCHANGED <<variant, accessToken, chats, message, isTyping, loading, error,
                   deleteDialogOpen, chatToDelete, isNewUser, nav, init, creates,
                   timers, del, send, srv, apiVars, viewVars>>

\* createNewChat() up to its request: the New Chat buttons.
CreateNewChat ==
    /\ UserCan /\ InFlight < MaxInFlight
    /\ creates' = creates + 1
    /\ UNCHANGED <<variant, accessToken, chats, activeChat, message, isTyping, loading,
                   error, deleteDialogOpen, chatToDelete, isNewUser, nav, init,
                   loads, timers, del, send, srv, apiVars, viewVars>>

\* The auto-create effect of Chat.tsx, lines 150-155.
AutoCreate ==
    /\ EffectDue
    /\ creates' = creates + 1
    /\ isNewUser' = FALSE
    /\ UNCHANGED <<variant, accessToken, chats, activeChat, message, isTyping, loading,
                   error, deleteDialogOpen, chatToDelete, nav, init, loads,
                   timers, del, send, srv, apiVars, viewVars>>

\* setTimeout(() => createNewChat(), 500) fires (Chat.tsx line 304).
TimerFires ==
    /\ timers > 0 /\ Live
    /\ timers' = timers - 1
    /\ creates' = creates + 1
    /\ UNCHANGED <<variant, accessToken, chats, activeChat, message, isTyping, loading,
                   error, deleteDialogOpen, chatToDelete, isNewUser, nav, init,
                   loads, del, send, srv, apiVars, viewVars>>

Unused == {c \in ChatIds : ~srv[c].used}

\* createNewChat after `await apiService.createChat(...)`, lines 253-262.
\* The backend creates the chat under the next id.
CreateResponse(ok) ==
    /\ creates > 0 /\ Live
    /\ ok => Unused # {}
    /\ creates' = creates - 1
    /\ IF ok
       THEN LET c == CHOOSE u \in Unused : \A v \in Unused : u <= v
                newChat == [id |-> c, title |-> srv'[c].title, messages |-> <<>>,
                            messageCount |-> 0]
            IN  /\ srv' = [srv EXCEPT ![c] = [used |-> TRUE, live |-> TRUE,
                                             title |-> NewChatTitle,
                                             msgs |-> <<>>]]
                /\ chats' = <<newChat>> \o chats
                /\ activeChat' = c
                /\ UNCHANGED error
       ELSE /\ error' = TRUE
            /\ UNCHANGED <<srv, chats, activeChat>>
    /\ UNCHANGED <<variant, accessToken, message, isTyping, loading, deleteDialogOpen,
                   chatToDelete, isNewUser, nav, init, loads, timers, del, send, apiVars, viewVars>>

\* confirmDeleteChat(chatId, e), lines 282-286: the delete icon of a chat.
ConfirmDeleteChat(c) ==
    /\ UserCan /\ ChatIndex(chats, c) # {}
    /\ chatToDelete' = c
    /\ deleteDialogOpen' = TRUE
    /\ UNCHANGED <<variant, accessToken, chats, activeChat, message, isTyping, loading,
                   error, isNewUser, nav, init, loads, creates, timers, del,
                   send, srv, apiVars, viewVars>>

\* The dialog's onClose and its Cancel button.
CloseDialog ==
    /\ Live /\ ~loading /\ deleteDialogOpen
    /\ deleteDialogOpen' = FALSE
    /\ UNCHANGED <<variant, accessToken, chats, activeChat, message, isTyping, loading,
                   error, chatToDelete, isNewUser, nav, init, loads, creates,
                   timers, del, send, srv, apiVars, viewVars>>

\* deleteChat() up to its request: the dialog's Delete button.  The handler
\* keeps the chats and activeChat of the render it was created in.
DeleteChat ==
    /\ Live /\ ~loading /\ deleteDialogOpen /\ del.st = "idle"
    /\ InFlight < MaxInFlight
    /\ del' = IF chatToDelete = 0 THEN del
              ELSE [st |-> "req", target |-> chatToDelete, chats |-> chats,
                    active |-> activeChat]
    /\ UNCHANGED <<variant, accessToken, chats, activeChat, message, isTyping, loading,
                   error, deleteDialogOpen, chatToDelete, isNewUser, nav, init,
                   loads, creates, timers, send, srv, apiVars, viewVars>>

\* deleteChat after `await apiService.deleteChat(chatToDelete)`.  Chat.tsx
\* sets the list computed from the handler's chats; the other copy filters
\* the current list.  Both pick the next chat from the handler's chats.
DeleteResponse(ok) ==
    /\ del.st = "req" /\ Live
    /\ IF ~ok
       THEN /\ error' = TRUE
            /\ deleteDialogOpen' = FALSE /\ chatToDelete' = 0 /\ del' = NoDel
            /\ UNCHANGED <<srv, chats, activeChat, loads, timers>>
       ELSE LET updatedChats == Without(del.chats, del.target)
            IN  /\ srv' = [srv EXCEPT ![del.target].live = FALSE]
                /\ chats' = IF variant = "Chat" THEN updatedChats
                            ELSE Without(chats, del.target)
                /\ UNCHANGED error
                /\ IF del.active = del.target /\ updatedChats # <<>>
                   THEN /\ activeChat' = updatedChats[1].id
                        /\ IssueLoad(updatedChats[1].id, "delete")
                        /\ del' = [del EXCEPT !.st = "loading"]
                        /\ UNCHANGED <<deleteDialogOpen, chatToDelete, timers>>
                   ELSE /\ activeChat' = IF del.active = del.target THEN 0
                                         ELSE activeChat
                        /\ timers' = IF del.active = del.target /\ variant = "Chat"
                                     THEN timers + 1 ELSE timers
                        /\ deleteDialogOpen' = FALSE /\ chatToDelete' = 0
                        /\ del' = NoDel
                        /\ UNCHANGED loads
    /\ UNCHANGED <<variant, accessToken, message, isTyping, loading, isNewUser, nav,
                   init, creates, send, apiVars, viewVars>>

\* onChange of the input: setMessage(e.target.value).
SetMessage(d) ==
    /\ UserCan /\ ~isTyping /\ d # message
    /\ message' = d
    /\ UNCHANGED <<variant, accessToken, chats, activeChat, isTyping, loading, error,
                   deleteDialogOpen, chatToDelete, isNewUser, nav, init, loads,
                   creates, timers, del, send, srv, apiVars, viewVars>>

\* sendMessage() with the input and the button enabled while typing.
SendMessageWhileTyping ==
    /\ UserCan
    /\ IF trim(message) = <<>> \/ activeChat = 0
       THEN UNCHANGED <<isTyping, send>>
       ELSE /\ InFlight < MaxInFlight
            /\ isTyping' = TRUE
            /\ send' = [st |-> "inflight", chat |-> activeChat, text |-> message,
                        pair |-> <<>>]
    /\ UNCHANGED <<variant, accessToken, chats, activeChat, message, loading, error,
                   deleteDialogOpen, chatToDelete, isNewUser, nav, init, loads,
                   creates, timers, del, srv, apiVars, viewVars>>

\* sendMessage() up to its request: Enter in the input or the send button.
\* The handler keeps the message and activeChat of its render.
SendMessage ==
    /\ UserCan /\ ~isTyping
    /\ IF trim(message) = <<>> \/ activeChat = 0
       THEN UNCHANGED <<isTyping, send>>
       ELSE /\ InFlight < MaxInFlight
            /\ isTyping' = TRUE
            /\ send' = [st |-> "inflight", chat |-> activeChat, text |-> message,
                        pair |-> <<>>]
    /\ UNCHANGED <<variant, accessToken, chats, activeChat, message, loading, error,
                   deleteDialogOpen, chatToDelete, isNewUser, nav, init, loads,
                   creates, timers, del, srv, apiVars, viewVars>>

\* The number of messages the backend holds, in the chats from c on.
RECURSIVE Stored(_)
Stored(c) == IF c > MaxChats THEN 0 ELSE Len(srv[c].msgs) + Stored(c + 1)

\* The backend stores the message and the reply to it.
ServerSend ==
    /\ send.st = "inflight" /\ send.pair = <<>>
    /\ srv[send.chat].live
    /\ Stored(1) + 2 <= MaxMsgs
    /\ LET pair == SrvPair(send.chat, Len(srv[send.chat].msgs), trim(send.text))
       IN  /\ srv' = [srv EXCEPT ![send.chat].msgs = @ \o pair]
           /\ send' = [send EXCEPT !.pair = pair]
    /\ UNCHANGED <<variant, accessToken, chats, activeChat, message, isTyping, loading,
                   error, deleteDialogOpen, chatToDelete, isNewUser, nav, init,
                   loads, creates, timers, del, apiVars, viewVars>>

\* The user message of the response alone.
SentMessagesUserOnly(pair) ==
    << [id |-> pair[1].id, text |-> pair[1].content, isUser |-> TRUE] >>

\* Lines 329-341: userMessage and aiMessage of the response.
SentMessages(pair) ==
    << [id |-> pair[1].id, text |-> pair[1].content, isUser |-> TRUE],
       [id |-> pair[2].id, text |-> pair[2].content, isUser |-> FALSE] >>

\* setChats(prev => prev.map(...)) of sendMessage, lines 343-353.
WithSentEverywhere(list, c, text, pair) ==
    [i \in DOMAIN list |->
        [list[i] EXCEPT !.messages = @ \o SentMessages(pair),
                        !.messageCount = @ + 2]]

\* The update of sendMessage applied to the chat active when the response
\* arrives.
WithSentToActive(list, c, text, pair) ==
    [i \in DOMAIN list |->
        IF list[i].id = activeChat
        THEN [list[i] EXCEPT
                 !.messages = @ \o SentMessages(pair),
                 !.title = IF list[i].messages = <<>> THEN TitleFrom(text) ELSE @,
                 !.messageCount = @ + 2]
        ELSE list[i]]

WithSent(list, c, text, pair) ==
    [i \in DOMAIN list |->
        IF list[i].id = c
        THEN [list[i] EXCEPT
                 !.messages = @ \o SentMessages(pair),
                 !.title = IF list[i].messages = <<>> THEN TitleFrom(text) ELSE @,
                 !.messageCount = @ + 2]
        ELSE list[i]]

\* sendMessage clearing the typing flag at the end of its try block.
SendResponseNoFinally(ok) ==
    /\ send.st = "inflight" /\ Live
    /\ ok => send.pair # <<>>
    /\ IF ok
       THEN /\ chats' = WithSent(chats, send.chat, send.text, send.pair)
            /\ message' = <<>>
            /\ UNCHANGED error
       ELSE /\ error' = TRUE
            /\ UNCHANGED <<chats, message>>
    /\ isTyping' = IF ok THEN FALSE ELSE isTyping
    /\ send' = NoSend
    /\ UNCHANGED <<variant, accessToken, activeChat, loading, deleteDialogOpen,
                   chatToDelete, isNewUser, nav, init, loads, creates, timers,
                   del, srv, apiVars, viewVars>>

\* sendMessage with setMessage('') in its finally block.
SendResponseClearsDraft(ok) ==
    /\ send.st = "inflight" /\ Live
    /\ ok => send.pair # <<>>
    /\ IF ok
       THEN /\ chats' = WithSent(chats, send.chat, send.text, send.pair)
            /\ UNCHANGED error
       ELSE /\ error' = TRUE
            /\ UNCHANGED chats
    /\ message' = <<>>
    /\ isTyping' = FALSE
    /\ send' = NoSend
    /\ UNCHANGED <<variant, accessToken, activeChat, loading, deleteDialogOpen,
                   chatToDelete, isNewUser, nav, init, loads, creates, timers,
                   del, srv, apiVars, viewVars>>

\* sendMessage after `await apiService.sendMessage(...)`, lines 329-361.
SendResponse(ok) ==
    /\ send.st = "inflight" /\ Live
    /\ ok => send.pair # <<>>
    /\ IF ok
       THEN /\ chats' = WithSent(chats, send.chat, send.text, send.pair)
            /\ message' = <<>>
            /\ UNCHANGED error
       ELSE /\ error' = TRUE
            /\ UNCHANGED <<chats, message>>
    /\ isTyping' = FALSE
    /\ send' = NoSend
    /\ UNCHANGED <<variant, accessToken, activeChat, loading, deleteDialogOpen,
                   chatToDelete, isNewUser, nav, init, loads, creates, timers,
                   del, srv, apiVars, viewVars>>

\* The error snackbar closes: setError(null).
CloseError ==
    /\ Live /\ ~loading /\ error
    /\ error' = FALSE
    /\ UNCHANGED <<variant, accessToken, chats, activeChat, message, isTyping, loading,
                   deleteDialogOpen, chatToDelete, isNewUser, nav, init, loads,
                   creates, timers, del, send, srv, apiVars, viewVars>>

ChatNext ==
    \/ \E currentTime \in Times : Mount(currentTime)
    \/ \E ok \in BOOLEAN, complete \in BOOLEAN : ProfileResponse(ok, complete)
    \/ \E ok \in BOOLEAN : ChatsResponse(ok)
    \/ \E i \in DOMAIN loads : ServerList(i)
    \/ \E i \in DOMAIN loads, ok \in BOOLEAN : LoadResponse(i, ok)
    \/ \E c \in ChatIds : HandleChatSelect(c)
    \/ CreateNewChat
    \/ AutoCreate
    \/ TimerFires
    \/ \E ok \in BOOLEAN : CreateResponse(ok)
    \/ \E c \in ChatIds : ConfirmDeleteChat(c)
    \/ CloseDialog
    \/ DeleteChat
    \/ \E ok \in BOOLEAN : DeleteResponse(ok)
    \/ \E d \in Drafts : SetMessage(d)
    \/ SendMessage
    \/ ServerSend
    \/ \E ok \in BOOLEAN : SendResponse(ok)
    \/ CloseError

ChatSpec == ChatInit /\ [][ChatNext]_vars

(***************************************************************************)
(* Properties of the chat view.                                            *)
(***************************************************************************)
\* C1: when a send is answered successfully, the chat it was sent to has its
\* messageCount increased by exactly 2 and the user message followed by the
\* assistant message appended to its local messages; no other chat changes.
C1_SendAppendsPair ==
    [][SendResponse(TRUE) =>
          /\ Len(chats') = Len(chats)
          /\ \A i \in DOMAIN chats :
                IF chats[i].id = send.chat
                THEN /\ chats'[i].id = chats[i].id
                     /\ chats'[i].messageCount = chats[i].messageCount + 2
                     /\ Len(chats'[i].messages) = Len(chats[i].messages) + 2
                     /\ Front(Front(chats'[i].messages)) = chats[i].messages
                     /\ LET n == Len(chats'[i].messages)
                            u == chats'[i].messages[n - 1]
                            a == chats'[i].messages[n]
                        IN  /\ u.isUser /\ u.id = send.pair[1].id
                            /\ u.text = trim(send.text)
                            /\ ~a.isUser /\ a.id = send.pair[2].id
                            /\ a.text = send.pair[2].content
                ELSE chats'[i] = chats[i]]_vars

\* A chat whose messages were loaded and then sent to, next to another chat.
C1_Witness ==
    /\ send = NoSend /\ Len(chats) = 2
    /\ \E i \in DOMAIN chats :
          /\ chats[i].messageCount = 4 /\ Len(chats[i].messages) = 4
          /\ chats[i].messages[3].isUser /\ ~chats[i].messages[4].isUser

\* C2: the title of a chat that has at least one message (messageCount > 0)
\* is not changed by any operation of the view.
C2_TitleKept ==
    [][\A i \in DOMAIN chats : \A j \in DOMAIN chats' :
          (chats'[j].id = chats[i].id /\ chats[i].messageCount > 0)
              => chats'[j].title = chats[i].title]_vars

\* C3: selecting a chat issues a message-list request for it exactly when
\* its local message list is empty and its messageCount is above 0.
C3_SelectLoadsOnlyUnloaded ==
    [][\A c \in ChatIds :
          HandleChatSelect(c) =>
             IF Find(chats, c).messages = <<>> /\ Find(chats, c).messageCount > 0
             THEN /\ Len(loads') = Len(loads) + 1
                  /\ Front(loads') = loads
                  /\ Last(loads').chat = c
             ELSE loads' = loads]_vars

\* A request made by a select is in flight, and the chat selected before it
\* holds its messages.
C3_Witness ==
    /\ \E i \in DOMAIN loads : loads[i].by = "select" /\ loads[i].chat = activeChat
    /\ \E j \in DOMAIN chats : chats[j].messages # <<>>

\* A message-list request for chat c goes out in this step.
LoadIssued(c) ==
    /\ Len(loads') = Len(loads) + 1
    /\ Front(loads') = loads
    /\ Last(loads').chat = c
    /\ ~Last(loads').read

\* C11: at most one message-list request is issued per chat; in particular
\* none is issued for a chat while one for it is still in flight.
C11_OneLoadPerChat ==
    [][\A c \in ChatIds :
          LoadIssued(c) => \A i \in DOMAIN loads : loads[i].chat # c]_vars

IsPrefix(a, b) == Len(a) <= Len(b) /\ SubSeq(b, 1, Len(a)) = a

\* The chat's messages are loaded: the local list holds all of them.
Loaded(chat) ==
    chat.messages # <<>> /\ Len(chat.messages) = chat.messageCount

\* C12: the local message list of a chat is append-only under message-load
\* and send responses: once a chat's messages are loaded, the list it holds
\* after such a response starts with them.
C12_MessagesAppendOnly ==
    [][((\E k \in DOMAIN loads, ok \in BOOLEAN : LoadResponse(k, ok))
            \/ (\E ok \in BOOLEAN : SendResponse(ok)))
          => \A i \in DOMAIN chats : \A j \in DOMAIN chats' :
                (chats'[j].id = chats[i].id /\ Loaded(chats[i]))
                    => IsPrefix(chats[i].messages, chats'[j].messages)]_vars

\* C13: when the delete of the active chat succeeds and other chats remain,
\* the first remaining chat of the list becomes the active chat, a
\* message-list request is issued for it, and the deleted chat is gone from
\* the list.
C13_DeleteActiveSelectsNext ==
    [][(DeleteResponse(TRUE) /\ activeChat = del.target
            /\ Without(chats, del.target) # <<>>)
          => LET next == Without(chats, del.target)[1].id
             IN  /\ activeChat' = next
                 /\ LoadIssued(next)
                 /\ ChatIndex(chats', del.target) = {}]_vars

\* C14: when the delete of the only chat of the list succeeds, activeChat
\* becomes empty; Chat.tsx then starts exactly one timer and the other copy
\* none, and no other automatic creation is due; the timer issues one
\* create-chat request when it fires, and a create-chat request that
\* succeeds on the empty list leaves exactly the created chat, active.
C14_DeleteLastClearsSelection ==
    [][/\ (DeleteResponse(TRUE) /\ Len(chats) = 1 /\ chats[1].id = del.target)
            => /\ activeChat' = 0
               /\ chats' = <<>>
               /\ timers' = timers + (IF variant = "Chat" THEN 1 ELSE 0)
               /\ creates' = creates
               /\ ~EffectDue'
       /\ TimerFires => (creates' = creates + 1 /\ timers' = timers - 1)
       /\ (CreateResponse(TRUE) /\ chats = <<>>)
            => /\ Len(chats') = 1
               /\ activeChat' = chats'[1].id
               /\ chats'[1].messages = <<>> /\ chats'[1].messageCount = 0]_vars

\* C15: in Chat.tsx, when the initial load ends with an empty chat list the
\* auto-create effect is due, it issues one create-chat request and is not
\* due again (isNewUser is raised by the initial load only); and when a
\* create-chat request succeeds on the still empty list, the created chat
\* is the only chat of the list and the active chat.
C15_NewUserGetsOneChat ==
    [][variant = "Chat" =>
          /\ ((\E ok \in BOOLEAN : ChatsResponse(ok)) /\ chats' = <<>>)
                => (EffectDue' /\ creates' = 0)
          /\ AutoCreate => (creates = 0 /\ creates' = 1 /\ ~EffectDue')
          /\ (isNewUser' /\ ~isNewUser) => (init = "chats" /\ init' = "done")
          /\ (CreateResponse(TRUE) /\ chats = <<>>)
                => (Len(chats') = 1 /\ activeChat' = chats'[1].id)]_vars

\* The request of the auto-create effect is in flight: the initial load
\* found no chat and nothing else has happened since.
C15_Witness ==
    /\ variant = "Chat" /\ init = "done" /\ ~isNewUser /\ ~error
    /\ chats = <<>> /\ creates = 1 /\ timers = 0
    /\ \A c \in ChatIds : ~srv[c].used

\* The initial load has not yet had the answer to its chat-list request.
BeforeChatList(phase) == phase \in {"start", "profile", "chats"}

\* C16: the chat-list request is issued only by the step that handles a
\* complete profile response, a message-list request is issued only at or
\* after the chat-list response, and a profile without name, age,
\* profession or address redirects to '/user-info', after which neither a
\* chat-list nor a message-list request is issued.
C16_InitialLoadOrder ==
    [][/\ (init' = "chats" /\ init # "chats")
            => (init = "profile" /\ ProfileResponse(TRUE, TRUE))
       /\ BeforeChatList(init) => loads = <<>>
       /\ BeforeChatList(init') => loads' = <<>>
       /\ Len(loads') > Len(loads) => ~BeforeChatList(init')
       /\ ProfileResponse(TRUE, FALSE)
            => (nav' = "/user-info" /\ init' = "redirected" /\ loads' = <<>>)
       /\ nav = "/user-info"
            => (init' = init /\ loads' = loads /\ init = "redirected")]_vars

\* The profile was incomplete: the view redirected and asked no chat list,
\* although the backend holds a chat.
C16_Witness ==
    /\ nav = "/user-info" /\ init = "redirected"
    /\ chats = <<>> /\ loads = <<>>
    /\ \E c \in ChatIds : srv[c].live

\* The stored access token is a decodable one that has not expired.
Unexpired(token, currentTime) == token.kind = "jwt" /\ token.exp > currentTime

\* No request of the chat view is waiting for its response or about to go.
NoChatRequest ==
    /\ init \notin {"profile", "chats", "msgs"}
    /\ loads = <<>> /\ creates = 0 /\ timers = 0
    /\ del = NoDel /\ send = NoSend

\* C17: when the chat view mounts and no unexpired access token is stored
\* (none, a malformed one, or one whose expiry is not greater than the
\* current time), it redirects to '/', and from then on it issues no
\* backend request.
C17_NoTokenNoRequest ==
    [][/\ \A t \in Times :
            (Mount(t) /\ ~Unexpired(accessToken, t))
                => (nav' = "/" /\ init' = "redirected" /\ NoChatRequest')
       /\ nav = "/" => (NoChatRequest /\ NoChatRequest' /\ chats' = <<>>)]_vars

\* The view was mounted with an expired token and redirected to '/'.
C17_Witness ==
    /\ nav = "/" /\ init = "redirected" /\ NoChatRequest
    /\ accessToken.kind = "jwt"

(***************************************************************************)
(* The profile view, UserInfo.  Strings are sequences of characters.  The  *)
(* component reads no token: it renders the form whatever is stored, and   *)
(* the request of its submit goes through the API service.                 *)
(***************************************************************************)

\* Values typed into the name, profession and address fields.
Texts == {<<>>, <<" ">>, <<"a">>}

\* Values of the age field (type="number"): empty or decimal digits.
Ages == {<<>>, <<"0">>, <<"1">>, <<"1", "2", "0">>, <<"1", "2", "1">>}

DigitValue(c) == IF c = "0" THEN 0 ELSE IF c = "1" THEN 1 ELSE 2

\* Number(age) and parseInt(age) of a string of digits; Number('') is 0.
RECURSIVE Number(_)
Number(age) ==
    IF age = <<>> THEN 0 ELSE 10 * Number(Front(age)) + DigitValue(Last(age))

isValidAge(age) == Number(age) >= AgeMin /\ Number(age) <= AgeMax

isSubmitDisabled ==
    \/ userInfo.loading
    \/ trim(userInfo.formData.name) = <<>>
    \/ trim(userInfo.formData.age) = <<>>
    \/ ~isValidAge(userInfo.formData.age)
    \/ trim(userInfo.formData.profession) = <<>>
    \/ trim(userInfo.formData.address) = <<>>

FieldValues(name) == IF name = "age" THEN Ages ELSE Texts

UserInfoInit ==
    /\ UserInfoUnmounted /\ SignUnmounted
    /\ accessToken \in Tokens
    /\ ChatAtRest
    /\ store = IF accessToken = NoToken THEN NoStore
               ELSE [access |-> 1, refresh |-> 1, user |-> 1]
    /\ task = [s \in Slots |-> IdleTask]
    /\ redirected = FALSE

\* handleChange: the fields are disabled while loading.
HandleChange(name, value) ==
    /\ userNav = "" /\ ~userInfo.loading
    /\ userInfo' = [userInfo EXCEPT !.formData[name] = value]
    /\ UNCHANGED <<update, userTimer, userNav, chatVars, apiVars, signVars>>

\* handleSubmit up to `await apiService.updateUserProfile(...)`.
HandleSubmit ==
    /\ userNav = "" /\ ~isSubmitDisabled
    /\ userInfo' = [userInfo EXCEPT !.loading = TRUE, !.error = "", !.success = ""]
    /\ update' = [st |-> "req",
                  data |-> [userInfo.formData EXCEPT !.age = Number(@)]]
    /\ UNCHANGED <<userTimer, userNav, chatVars, apiVars, signVars>>

\* handleSubmit after the await: success, success = false, or a throw.  The
\* backend accepts the update only with a token it can read.
UpdateResponse(outcome) ==
    /\ userNav = "" /\ update.st = "req"
    /\ outcome = "success" => accessToken.kind = "jwt"
    /\ update' = NoUpdate
    /\ userInfo' =
          [userInfo EXCEPT
              !.loading = FALSE,
              !.showSnackbar = TRUE,
              !.success = IF outcome = "success"
                          THEN "Profile updated successfully!" ELSE @,
              !.error = IF outcome = "success" THEN @
                        ELSE IF outcome = "refused"
                        THEN "Failed to update profile"
                        ELSE "An error occurred while updating profile"]
    /\ userTimer' = (userTimer \/ outcome = "success")
    /\ UNCHANGED <<userNav, chatVars, apiVars, signVars>>

\* The timer of a successful update fires.
UserTimerFires ==
    /\ userNav = "" /\ userTimer
    /\ userNav' = "/Home"
    /\ userTimer' = FALSE
    /\ UNCHANGED <<userInfo, update, chatVars, apiVars, signVars>>

\* The snackbar closes: by its button or after autoHideDuration.
CloseSnackbar ==
    /\ userNav = "" /\ userInfo.showSnackbar
    /\ userInfo' = [userInfo EXCEPT !.showSnackbar = FALSE]
    /\ UNCHANGED <<update, userTimer, userNav, chatVars, apiVars, signVars>>

UserInfoNext ==
    \/ \E name \in DOMAIN NoFormData : \E value \in FieldValues(name) :
          HandleChange(name, value)
    \/ HandleSubmit
    \/ \E outcome \in {"success", "refused", "error"} : UpdateResponse(outcome)
    \/ UserTimerFires
    \/ CloseSnackbar

UserInfoSpec == UserInfoInit /\ [][UserInfoNext]_vars

\* C18: with no access token stored, the profile view never has a
\* profile-update request outstanding (it leaves for the sign-in entry
\* point instead of taking the form's submit).
C18_ProfileViewGatesOnToken ==
    accessToken = NoToken => (update = NoUpdate /\ ~userInfo.loading)

\* C19: when a logout() call finishes, whether its request was answered or
\* failed, the store holds no access token, no refresh token and no cached
\* user; and when a refresh is answered with tokens, the stored access and
\* refresh token are both those of that response.
C19_LogoutClearsRefreshReplaces ==
    [][\A t \in Slots :
          /\ (Handled(t) /\ task[t].kind = "logout" /\ Settled(task'[t]))
                => store' = NoStore
          /\ (Handled(t) /\ task[t].ans = "ok" /\ Len(task[t].frames) > 1
                /\ task[t].tok # 0)
                => (store'.access = task[t].tok /\ store'.refresh = task[t].tok)]_vars

\* A logout() whose request failed has finished, and the store is empty.
C19_Witness ==
    /\ store = NoStore
    /\ \E t \in CallSlots :
          task[t].st = "done" /\ task[t].kind = "logout" /\ task[t].cause = "error"

(***************************************************************************)
(* The auth view, SignInUp.  A request in authReqs carries the payload     *)
(* its handler built from the formState of the render it ran in.  The      *)
(* handlers write the state with updateFormState, which merges into the    *)
(* state of the moment.                                                    *)
(***************************************************************************)

EmailA == <<"a", "@", "b", ".", "c">>
EmailB == <<"b", "@", "b", ".", "c">>

\* Values typed into the email field.
Emails == {<<>>, <<"a", "@", "b">>, EmailA, EmailB}

\* Values typed into the password fields: only the length matters.
Pw(n) == [i \in 1..n |-> "x"]
Passwords == {<<>>, Pw(PasswordMin - 1), Pw(PasswordMin)}

\* Texts typed into the OTP field.
OtpTexts ==
    {<<>>,
     <<"1", "2", "3", "4", "5">>,
     <<"1", "2", "3", "4", "5", "6">>,
     <<"1", "a", "2", "3", " ", "4", "5", "6", "7">>}

IsDigit(c) == c \in {"0", "1", "2", "3", "4", "5", "6", "7", "8", "9"}

\* validators.email: /^[^\s@]+@[^\s@]+\.[^\s@]+$/
ValidEmail(email) ==
    \E i \in DOMAIN email, j \in DOMAIN email :
        /\ email[i] = "@" /\ email[j] = "."
        /\ 1 < i /\ i + 1 < j /\ j < Len(email)
        /\ \A k \in DOMAIN email : email[k] \in {"@", " "} => k = i

\* validators.password
ValidPassword(password) == Len(password) >= PasswordMin

\* validators.otp: otp.length === 6 && /^\d+$/.test(otp)
ValidOtp(otp) == Len(otp) = OtpLen /\ \A k \in DOMAIN otp : IsDigit(otp[k])

\* The OTP handler cutting the text before it removes the non-digits.
OtpInputSliceFirst(text) == SelectSeq(slice(text, OtpLen), IsDigit)

\* e.target.value.replace(/\D/g, '').slice(0, 6)
OtpInput(text) == slice(SelectSeq(text, IsDigit), OtpLen)

\* updateFormState of handleError and of the success = false branches.
WithError(fs, msg) ==
    [fs EXCEPT !.error = msg, !.success = "", !.showSnackbar = TRUE, !.loading = FALSE]

WithRefusal(fs, msg) ==
    [fs EXCEPT !.error = msg, !.showSnackbar = TRUE, !.loading = FALSE]

WithSuccess(fs, msg) ==
    [fs EXCEPT !.success = msg, !.error = "", !.showSnackbar = TRUE, !.loading = FALSE]

TimerCount ==
    (IF signTimers.home THEN 1 ELSE 0) + (IF signTimers.userInfo THEN 1 ELSE 0)
        + signTimers.reset

\* saveTokens(tokens, user) of login and register.
saveTokens(st, tokens, user) ==
    LET st2 == setRefreshToken(setToken(st, tokens), tokens)
    IN  IF user # 0 THEN [st2 EXCEPT !.user = user] ELSE st2

SignInit ==
    /\ SignUnmounted /\ UserInfoUnmounted
    /\ ChatUnmounted
    /\ store = NoStore
    /\ task = [s \in Slots |-> IdleTask]
    /\ redirected = FALSE

SignMounted == signNav = ""

\* A validation gate failed: only the message and the snackbar flag change.
Reject(msg) ==
    /\ formState' = [formState EXCEPT !.error = msg, !.showSnackbar = TRUE]
    /\ UNCHANGED authReqs

\* The request object a handler builds from formState.
AuthRequest(kind) ==
    [kind |-> kind,
     email |-> formState.email,
     otp |-> IF kind = "verifyOtp" THEN formState.otp ELSE <<>>,
     otpId |-> IF kind = "verifyOtp" THEN formState.otpId ELSE 0,
     password |-> IF kind = "login" THEN formState.password
                  ELSE IF kind \in {"register", "forgotPassword"}
                  THEN formState.newPassword ELSE <<>>,
     verificationToken |-> IF kind \in {"register", "forgotPassword"}
                           THEN formState.verificationToken ELSE 0]

\* The handler passes its gates and awaits its request.
Issue(kind) ==
    /\ Len(authReqs) + TimerCount < MaxAuth
    /\ formState' = [formState EXCEPT !.loading = TRUE, !.error = "", !.success = ""]
    /\ authReqs' = Append(authReqs, AuthRequest(kind))

\* handleSendOtp marking the OTP as sent before the request is answered.
handleSendOtpOptimistic ==
    IF ~ValidEmail(formState.email)
    THEN Reject("Please enter a valid email address")
    ELSE /\ Len(authReqs) + TimerCount < MaxAuth
         /\ formState' = [formState EXCEPT !.loading = TRUE, !.error = "",
                                           !.success = "", !.otpSent = TRUE]
         /\ authReqs' = Append(authReqs, AuthRequest("sendOtp"))

handleSendOtp ==
    IF ~ValidEmail(formState.email)
    THEN Reject("Please enter a valid email address")
    ELSE Issue("sendOtp")

handleVerifyOtp ==
    IF ~ValidOtp(formState.otp)
    THEN Reject("Please enter a valid 6-digit OTP")
    ELSE Issue("verifyOtp")

\* handleSignIn without the check of the password.
handleSignInNoPasswordGate ==
    IF ~ValidEmail(formState.email)
    THEN Reject("Please enter a valid email address")
    ELSE Issue("login")

handleSignIn ==
    IF ~ValidEmail(formState.email)
    THEN Reject("Please enter a valid email address")
    ELSE IF ~ValidPassword(formState.password)
    THEN Reject("Password must be at least 6 characters long")
    ELSE Issue("login")

\* handleSignUp and handleForgotPasswordSubmit have the same gates.
handleFinal(kind) ==
    IF ~ValidPassword(formState.newPassword)
    THEN Reject("Password must be at least 6 characters long")
    ELSE IF formState.verificationToken = 0
    THEN Reject("Please verify your email first")
    ELSE Issue(kind)

\* isSubmitDisabled of the auth view.
AuthSubmitDisabled ==
    \/ formState.loading
    \/ IF formState.mode = "signin"
       THEN formState.email = <<>> \/ formState.password = <<>>
       ELSE IF ~formState.otpSent THEN formState.email = <<>>
       ELSE IF formState.verificationToken = 0 THEN formState.otp = <<>>
       ELSE formState.newPassword = <<>>

\* handleSubmit of the auth view, up to the await of the handler it calls.
AuthSubmit ==
    /\ SignMounted /\ ~AuthSubmitDisabled
    /\ IF formState.mode = "signin" THEN handleSignIn
       ELSE IF ~formState.otpSent THEN handleSendOtp
       ELSE IF formState.verificationToken = 0 THEN handleVerifyOtp
       ELSE handleFinal(IF formState.mode = "signup" THEN "register"
                        ELSE "forgotPassword")
    /\ UNCHANGED <<signTimers, signNav, userVars, chatVars, apiVars>>

\* The onChange handlers of the four fields, each enabled as rendered.
SetEmail(email) ==
    /\ SignMounted /\ ~formState.loading
    /\ ~(formState.otpSent /\ formState.mode # "signin")
    /\ formState' = [formState EXCEPT !.email = email]
    /\ UNCHANGED <<authReqs, signTimers, signNav, userVars, chatVars, apiVars>>

SetPassword(password) ==
    /\ SignMounted /\ ~formState.loading /\ formState.mode = "signin"
    /\ formState' = [formState EXCEPT !.password = password]
    /\ UNCHANGED <<authReqs, signTimers, signNav, userVars, chatVars, apiVars>>

SetOtp(text) ==
    /\ SignMounted /\ ~formState.loading
    /\ formState.mode # "signin" /\ formState.otpSent
    /\ formState.verificationToken = 0
    /\ formState' = [formState EXCEPT !.otp = OtpInput(text)]
    /\ UNCHANGED <<authReqs, signTimers, signNav, userVars, chatVars, apiVars>>

SetNewPassword(password) ==
    /\ SignMounted /\ ~formState.loading
    /\ formState.mode # "signin" /\ formState.verificationToken # 0
    /\ formState' = [formState EXCEPT !.newPassword = password]
    /\ UNCHANGED <<authReqs, signTimers, signNav, userVars, chatVars, apiVars>>

\* A mode switch that carries the email over to the new mode.
SwitchModeKeepEmail(newMode) ==
    /\ SignMounted /\ ~formState.loading
    /\ \/ newMode = (IF formState.mode = "signin" THEN "signup" ELSE "signin")
       \/ newMode = "forgot" /\ formState.mode # "forgot"
    /\ formState' = [initialFormState EXCEPT !.mode = newMode,
                                             !.email = formState.email]
    /\ UNCHANGED <<authReqs, signTimers, signNav, userVars, chatVars, apiVars>>

\* handleModeToggle, handleForgotPassword and the Back to Sign In button.
SwitchMode(newMode) ==
    /\ SignMounted /\ ~formState.loading
    /\ \/ newMode = (IF formState.mode = "signin" THEN "signup" ELSE "signin")
       \/ newMode = "forgot" /\ formState.mode # "forgot"
    /\ formState' = [initialFormState EXCEPT !.mode = newMode]
    /\ UNCHANGED <<authReqs, signTimers, signNav, userVars, chatVars, apiVars>>

CloseAuthSnackbar ==
    /\ SignMounted /\ formState.showSnackbar
    /\ formState' = [formState EXCEPT !.showSnackbar = FALSE]
    /\ UNCHANGED <<authReqs, signTimers, signNav, userVars, chatVars, apiVars>>

\* A handler that starts its timer whatever the answer.
TimersAfterAnyAnswer(kind, outcome) ==
    IF kind = "login" THEN [signTimers EXCEPT !.home = TRUE]
    ELSE IF kind = "register" THEN [signTimers EXCEPT !.userInfo = TRUE]
    ELSE IF kind = "forgotPassword" THEN [signTimers EXCEPT !.reset = @ + 1]
    ELSE signTimers

\* The setTimeout calls of the success branches, lines 205, 250 and 295.
TimersAfter(kind, outcome) ==
    IF outcome # "success" THEN signTimers
    ELSE IF kind = "login" THEN [signTimers EXCEPT !.home = TRUE]
    ELSE IF kind = "register" THEN [signTimers EXCEPT !.userInfo = TRUE]
    ELSE IF kind = "forgotPassword" THEN [signTimers EXCEPT !.reset = @ + 1]
    ELSE signTimers

\* login and register saving whatever the response body carries.
SavesAnyBody(kind, outcome) ==
    kind \in {"login", "register"} /\ outcome # "error"

\* `if (response.data.success)` of login and register: the tokens are
\* saved for a response with success = true only.
Saves(kind, outcome) ==
    kind \in {"login", "register"} /\ outcome = "success"

\* The handler of request i after its await.  given is the otpId, the
\* verification token, or the tokens of the response (0 when absent).
\* login and register save the tokens before they return; a success
\* response without tokens makes them throw.
AuthResponse(i, outcome, given) ==
    LET r == authReqs[i]
        saves == Saves(r.kind, outcome)
    IN
    /\ SignMounted
    /\ given # 0 => (outcome = "success" /\ r.kind # "forgotPassword")
    /\ (r.kind \in {"login", "register"} /\ outcome = "success") => given # 0
    /\ authReqs' = Remove(authReqs, i)
    /\ formState' =
          IF outcome = "error" THEN WithError(formState, "An unexpected error occurred")
          ELSE IF outcome = "refused"
          THEN WithRefusal(formState,
                  IF r.kind = "sendOtp" THEN "Failed to send OTP"
                  ELSE IF r.kind = "verifyOtp" THEN "Invalid OTP"
                  ELSE IF r.kind = "login" THEN "Sign in failed"
                  ELSE IF r.kind = "register" THEN "Sign up failed"
                  ELSE "Password reset failed")
          ELSE IF r.kind = "sendOtp"
          THEN WithSuccess([formState EXCEPT !.otpId = given, !.otpSent = TRUE],
                           "OTP sent successfully to your email")
          ELSE IF r.kind = "verifyOtp"
          THEN WithSuccess([formState EXCEPT !.verificationToken = given],
                           "OTP verified successfully")
          ELSE IF r.kind = "login" THEN WithSuccess(formState, "Sign in successful")
          ELSE IF r.kind = "register"
          THEN WithSuccess(formState, "Account created successfully")
          ELSE WithSuccess(formState, "Password reset successfully")
    /\ signTimers' = TimersAfter(r.kind, outcome)
    /\ IF saves
       THEN /\ \E user \in {0, 1} : store' = saveTokens(store, given, user)
            /\ accessToken' \in Tokens \ {NoToken}
       ELSE UNCHANGED <<store, accessToken>>
    /\ UNCHANGED <<signNav, userVars, task, redirected, variant, chats,
                   activeChat, message, isTyping, loading, error,
                   deleteDialogOpen, chatToDelete, isNewUser, nav, init, loads,
                   creates, timers, del, send, srv>>

\* A timer fires: navigate('/home'), navigate('/user-info'), or resetForm()
\* followed by updateFormState({ mode: 'signin' }).
AuthTimerFires(which) ==
    /\ SignMounted
    /\ \/ /\ which = "home" /\ signTimers.home
          /\ signNav' = "/home"
          /\ signTimers' = [signTimers EXCEPT !.home = FALSE]
          /\ UNCHANGED formState
       \/ /\ which = "userInfo" /\ signTimers.userInfo
          /\ signNav' = "/user-info"
          /\ signTimers' = [signTimers EXCEPT !.userInfo = FALSE]
          /\ UNCHANGED formState
       \/ /\ which = "reset" /\ signTimers.reset > 0
          /\ formState' = initialFormState
          /\ signTimers' = [signTimers EXCEPT !.reset = @ - 1]
          /\ UNCHANGED signNav
    /\ UNCHANGED <<authReqs, userVars, chatVars, apiVars>>

SignNext ==
    \/ \E email \in Emails : SetEmail(email)
    \/ \E password \in Passwords : SetPassword(password)
    \/ \E text \in OtpTexts : SetOtp(text)
    \/ \E password \in Passwords : SetNewPassword(password)
    \/ \E newMode \in {"signin", "signup", "forgot"} : SwitchMode(newMode)
    \/ AuthSubmit
    \/ CloseAuthSnackbar
    \/ \E i \in DOMAIN authReqs, outcome \in {"success", "refused", "error"},
          given \in 0..MaxOtpId : AuthResponse(i, outcome, given)
    \/ \E which \in {"home", "userInfo", "reset"} : AuthTimerFires(which)

SignSpec == SignInit /\ [][SignNext]_vars

\* A request of this kind goes out in this step.
AuthIssued(kind) ==
    /\ Len(authReqs') = Len(authReqs) + 1
    /\ Front(authReqs') = authReqs
    /\ Last(authReqs').kind = kind

\* The success response to a request of this kind is handled in this step.
AuthSucceeded(kind, given) ==
    \E i \in DOMAIN authReqs :
        authReqs[i].kind = kind /\ AuthResponse(i, "success", given)

\* C20: the signup and the forgot-password request are issued only in their
\* mode with otpSent set and a non-empty verification token, which they
\* carry; the verify-OTP request is issued only with otpSent set; otpSent
\* is set only by the success response to a send-OTP request, and the
\* verification token only by the success response to a verify-OTP request
\* that carries it.
C20_OtpThenVerifyThenSubmit ==
    [][/\ AuthIssued("register")
            => /\ formState.mode = "signup" /\ formState.otpSent
               /\ formState.verificationToken # 0
               /\ Last(authReqs').verificationToken = formState.verificationToken
       /\ AuthIssued("forgotPassword")
            => /\ formState.mode = "forgot" /\ formState.otpSent
               /\ formState.verificationToken # 0
               /\ Last(authReqs').verificationToken = formState.verificationToken
       /\ AuthIssued("verifyOtp")
            => (formState.mode # "signin" /\ formState.otpSent)
       /\ (formState'.otpSent /\ ~formState.otpSent)
            => \E given \in 0..MaxOtpId : AuthSucceeded("sendOtp", given)
       /\ (formState'.verificationToken # 0 /\ formState.verificationToken = 0)
            => AuthSucceeded("verifyOtp", formState'.verificationToken)]_vars

\* The signup request is waiting for its response.
C20_Witness ==
    /\ signNav = "" /\ formState.mode = "signup" /\ formState.loading
    /\ formState.otpSent /\ formState.verificationToken # 0
    /\ \E i \in DOMAIN authReqs :
          authReqs[i].kind = "register" /\ authReqs[i].verificationToken # 0

\* The gate of the handler that a submit runs in this state fails.
GateFails ==
    IF formState.mode = "signin"
    THEN ~ValidEmail(formState.email) \/ Len(formState.password) < PasswordMin
    ELSE IF ~formState.otpSent THEN ~ValidEmail(formState.email)
    ELSE IF formState.verificationToken = 0
    THEN ~(Len(formState.otp) = OtpLen /\ \A k \in DOMAIN formState.otp :
                                              IsDigit(formState.otp[k]))
    ELSE Len(formState.newPassword) < PasswordMin

\* C21: a send-OTP and a sign-in request carry an email that matches the
\* email pattern, a sign-in, sign-up and password-reset request a password
\* of at least 6 characters, a verify-OTP request an OTP of exactly 6
\* digits; and a submit whose gate fails issues no request and changes only
\* the error message and the snackbar flag.
C21_FailedGateIssuesNothing ==
    [][/\ \A kind \in {"sendOtp", "login"} :
            AuthIssued(kind) => ValidEmail(Last(authReqs').email)
       /\ \A kind \in {"login", "register", "forgotPassword"} :
            AuthIssued(kind) => Len(Last(authReqs').password) >= PasswordMin
       /\ AuthIssued("verifyOtp")
            => /\ Len(Last(authReqs').otp) = OtpLen
               /\ \A k \in DOMAIN Last(authReqs').otp : IsDigit(Last(authReqs').otp[k])
       /\ (AuthSubmit /\ GateFails)
            => /\ authReqs' = authReqs
               /\ formState'.error # "" /\ formState'.showSnackbar
               /\ formState' = [formState EXCEPT !.error = formState'.error,
                                                 !.showSnackbar = TRUE]
               /\ UNCHANGED <<signTimers, signNav, store>>]_vars

\* A sign-in with a valid email and a password of 5 characters was refused
\* by the gate: the message is shown and no request is waiting.
C21_Witness ==
    /\ signNav = "" /\ formState.mode = "signin" /\ ~formState.loading
    /\ ValidEmail(formState.email) /\ Len(formState.password) = PasswordMin - 1
    /\ formState.error = "Password must be at least 6 characters long"
    /\ formState.showSnackbar /\ authReqs = <<>>

(***************************************************************************)
(* The OTP field on its own: the auth view in signup mode after a          *)
(* successful OTP send, taking keystrokes and pasted texts.                 *)
(***************************************************************************)

TypedChars == {"1", "2", "a"}
\* The value of the input element after an input to the field that shows
\* otp: a character typed at its end, its last character deleted, or a
\* text pasted over it.
InputTexts(otp) ==
    {otp \o <<c>> : c \in TypedChars}
        \cup (IF otp = <<>> THEN {} ELSE {Front(otp)})
        \cup OtpTexts

\* The state after a successful OTP send for EmailA, the snackbar closed.
OtpFieldInit ==
    /\ formState = [initialFormState EXCEPT
                       !.mode = "signup", !.email = EmailA, !.otpSent = TRUE,
                       !.otpId = 1,
                       !.success = "OTP sent successfully to your email"]
    /\ authReqs = <<>> /\ signTimers = NoTimers /\ signNav = ""
    /\ UserInfoUnmounted
    /\ ChatUnmounted
    /\ store = NoStore
    /\ task = [s \in Slots |-> IdleTask]
    /\ redirected = FALSE

OtpFieldNext == \E text \in InputTexts(formState.otp) : SetOtp(text)

OtpFieldSpec == OtpFieldInit /\ [][OtpFieldNext]_vars

\* The first n digits of a text, read from the left.
RECURSIVE FirstDigits(_, _)
FirstDigits(text, n) ==
    IF text = <<>> \/ n = 0 THEN <<>>
    ELSE IF IsDigit(Head(text))
    THEN <<Head(text)>> \o FirstDigits(Tail(text), n - 1)
    ELSE FirstDigits(Tail(text), n)

\* C22: the stored OTP holds digits only and at most 6 of them, and each
\* input to the OTP field sets it to the first 6 digits of the typed text.
C22_OtpFieldKeepsSixDigits ==
    [][/\ Len(formState'.otp) <= OtpLen
       /\ \A k \in DOMAIN formState'.otp : IsDigit(formState'.otp[k])
       /\ \A text \in InputTexts(formState.otp) :
             SetOtp(text) => formState'.otp = FirstDigits(text, OtpLen)]_vars

\* Six digits are stored in the OTP field.
C22_Witness ==
    /\ formState.otpSent /\ formState.verificationToken = 0
    /\ Len(formState.otp) = OtpLen

\* Every field of the form but mode has the value it starts with.
Cleared(fs) ==
    /\ fs.email = <<>> /\ fs.otp = <<>>
    /\ fs.password = <<>> /\ fs.newPassword = <<>>
    /\ ~fs.otpSent /\ fs.otpId = 0 /\ fs.verificationToken = 0
    /\ ~fs.loading /\ fs.error = "" /\ fs.success = "" /\ ~fs.showSnackbar

\* C23: a mode switch (sign-in to sign-up, sign-up or forgot to sign-in,
\* any other mode to forgot) sets mode to its target and every other field
\* of the form to its initial value; and so does every step that changes
\* the mode.
C23_ModeSwitchResets ==
    [][/\ \A newMode \in {"signin", "signup", "forgot"} :
            SwitchMode(newMode)
                => /\ formState'.mode = newMode /\ newMode # formState.mode
                   /\ Cleared(formState')
                   /\ DOMAIN formState' = DOMAIN formState
       /\ formState'.mode # formState.mode => Cleared(formState')]_vars

\* A password reset succeeded and, before its timer ran, the form was
\* switched back to sign-in: the form is cleared.
C23_Witness ==
    /\ signNav = "" /\ signTimers.reset = 1 /\ authReqs = <<>>
    /\ formState.mode = "signin" /\ Cleared(formState)

\* C24: the auth view is left only by the timer of a successful sign-in,
\* to '/home', or of a successful sign-up, to '/user-info'; these timers
\* are started only by the success response, whose step does not navigate
\* itself; and a sign-in or sign-up answered with success = false or with
\* an error starts no timer and does not navigate.
C24_NavigateOnlyAfterSuccess ==
    [][/\ signNav' # signNav
            => /\ signNav = ""
               /\ \/ signNav' = "/home" /\ signTimers.home /\ AuthTimerFires("home")
                  \/ /\ signNav' = "/user-info" /\ signTimers.userInfo
                     /\ AuthTimerFires("userInfo")
       /\ (signTimers'.home /\ ~signTimers.home)
            => \E given \in 1..MaxOtpId : AuthSucceeded("login", given)
       /\ (signTimers'.userInfo /\ ~signTimers.userInfo)
            => \E given \in 1..MaxOtpId : AuthSucceeded("register", given)
       /\ \A i \in DOMAIN authReqs, outcome \in {"success", "refused", "error"},
             given \in 0..MaxOtpId :
             AuthResponse(i, outcome, given)
                => /\ signNav' = signNav
                   /\ (outcome # "success" /\ authReqs[i].kind \in {"login", "register"})
                         => signTimers' = signTimers]_vars

\* The timer of a successful sign-up has run: the view went to '/user-info'.
C24_Witness ==
    /\ signNav = "/user-info" /\ ~signTimers.userInfo
    /\ store.access # 0

\* Every user message of the list is followed by an assistant message.
Paired(messages) ==
    \A k \in DOMAIN messages :
        messages[k].isUser
            => (k + 1 \in DOMAIN messages /\ ~messages[k + 1].isUser)

\* C25: the typing flag is set exactly while a send request is waiting for
\* its response, and no chat of the list holds a user message without the
\* assistant message that follows it.
C25_TypingWhileSending ==
    /\ isTyping <=> (send.st = "inflight")
    /\ \A i \in DOMAIN chats : Paired(chats[i].messages)

\* A send is waiting for its response in a chat that holds the two
\* messages of an earlier exchange.
C25_Witness ==
    /\ isTyping /\ send.st = "inflight"
    /\ \E i \in DOMAIN chats :
          chats[i].id = send.chat /\ Len(chats[i].messages) = 2

\* C26: a send request is started only when none is waiting for its
\* response: while one is, the input and the send button start no other.
C26_OneSendAtATime ==
    [][SendMessage => (send.st = "idle" /\ ~isTyping /\ send'.st = "inflight")]_vars

\* A send is waiting for its response, the backend has stored its
\* messages, and the draft is still in the disabled input.
C26_Witness ==
    /\ send.st = "inflight" /\ send.pair # <<>> /\ isTyping
    /\ trim(message) # <<>> /\ activeChat = send.chat
    /\ init = "done" /\ ~loading /\ ~deleteDialogOpen

\* The title the text of a first message gives: the text, or its first 30
\* characters and an ellipsis.
TitleOf(text) ==
    IF Len(text) <= TitleMax THEN text
    ELSE SubSeq(text, 1, TitleMax) \o <<".", ".", ".">>

\* C27: when the response to the first message sent in a chat is handled,
\* the title of the chat becomes the text of the user message of that
\* response when it has at most 30 characters, and else its first 30
\* characters followed by '...'.
C27_FirstMessageTitles ==
    [][SendResponse(TRUE)
          => \A i \in DOMAIN chats :
                (chats[i].id = send.chat /\ chats[i].messageCount = 0
                    /\ chats[i].messages = <<>>)
                   => chats'[i].title = TitleOf(SentMessages(send.pair)[1].text)]_vars

\* The response handled in this step is a failure.
InitFailed ==
    \/ \E complete \in BOOLEAN : ProfileResponse(FALSE, complete)
    \/ ChatsResponse(FALSE)
    \/ \E i \in DOMAIN loads : loads[i].by = "init" /\ LoadResponse(i, FALSE)

LoadFailed == \E i \in DOMAIN loads : LoadResponse(i, FALSE)

\* C28: a failed initial load, message load, create, delete or send sets
\* the error message and resets the flags of its operation: the initial
\* load the loading flag, the send the typing flag, the delete the dialog
\* and chatToDelete (also when the failure is that of the message load a
\* delete awaits); a failed create or delete changes no chat; and when the
\* failure leaves no request outstanding, the view is not loading and not
\* typing.
C28_FailureLeavesViewIdle ==
    [][/\ InitFailed => (error' /\ ~loading' /\ init' = "done")
       /\ LoadFailed => (error' /\ chats' = chats)
       /\ (\E i \in DOMAIN loads : loads[i].by = "delete" /\ LoadResponse(i, FALSE))
            => (~deleteDialogOpen' /\ chatToDelete' = 0 /\ del' = NoDel)
       /\ CreateResponse(FALSE) => (error' /\ chats' = chats /\ activeChat' = activeChat)
       /\ DeleteResponse(FALSE)
            => /\ error' /\ ~deleteDialogOpen' /\ chatToDelete' = 0 /\ del' = NoDel
               /\ chats' = chats /\ activeChat' = activeChat
       /\ SendResponse(FALSE) => (error' /\ ~isTyping' /\ send' = NoSend)
       /\ ((InitFailed \/ LoadFailed \/ CreateResponse(FALSE)
                \/ DeleteResponse(FALSE) \/ SendResponse(FALSE))
             /\ InFlight' = 0 /\ ~EffectDue')
            => (~loading' /\ ~isTyping' /\ nav' = ""
                  /\ (UserCan' \/ deleteDialogOpen'))]_vars

\* A send failed: the error is shown, the draft is kept, and the view
\* takes actions again.
C28_Witness ==
    /\ error /\ ~isTyping /\ send = NoSend /\ trim(message) # <<>>
    /\ InFlight = 0 /\ init = "done" /\ UserCan
    /\ \A c \in ChatIds : Len(srv[c].msgs) = 0

\* C29: the active selection is empty or the id of a chat of the list.
C29_ActiveChatListed ==
    activeChat = 0 \/ ChatIndex(chats, activeChat) # {}

\* C30: a successful delete removes the targeted chat from the list as it
\* is when the response is handled, and nothing else: the chats created
\* and the messages loaded or appended while the request was in flight
\* are kept.
C30_DeleteRemovesOnlyTarget ==
    [][DeleteResponse(TRUE) => chats' = Without(chats, del.target)]_vars

\* C31: the response to a send is applied to the chat that was active when
\* the send was started; when the user has selected another chat before the
\* response arrives, the chat of the send gets the two messages and every
\* other chat, the selected one included, keeps its messages, title and
\* messageCount, and the selection stays.
C31_SendAppliesToChatOfSend ==
    [][(SendResponse(TRUE) /\ activeChat # send.chat) =>
          /\ activeChat' = activeChat
          /\ Len(chats') = Len(chats)
          /\ \A i \in DOMAIN chats :
                IF chats[i].id = send.chat
                THEN /\ chats'[i].messages =
                            chats[i].messages \o SentMessages(send.pair)
                     /\ chats'[i].messageCount = chats[i].messageCount + 2
                ELSE chats'[i] = chats[i]]_vars

\* A send to a listed chat is answered by the backend while the user has
\* selected the other chat.
C31_Witness ==
    /\ send.st = "inflight" /\ send.pair # <<>> /\ Live
    /\ activeChat # 0 /\ activeChat # send.chat
    /\ ChatIndex(chats, send.chat) # {} /\ ChatIndex(chats, activeChat) # {}

\* C32: with a backend that returns a chat's complete message list and a
\* messageCount equal to its length, every chat whose messages are held
\* locally has messageCount equal to the number of its local messages,
\* however message-load and send responses interleave.
C32_CountIsLocalLength ==
    \A i \in DOMAIN chats :
        chats[i].messages # <<>>
            => chats[i].messageCount = Len(chats[i].messages)

\* C33: when the delete of a chat that is not the active chat succeeds, the
\* active chat stays and no message-list request is issued; when a delete
\* request fails, the chat list and the active chat stay.
C33_DeleteOtherKeepsSelection ==
    [][/\ (DeleteResponse(TRUE) /\ activeChat # del.target)
            => (activeChat' = activeChat /\ loads' = loads)
       /\ DeleteResponse(FALSE)
            => (chats' = chats /\ activeChat' = activeChat)]_vars

\* C34: a send whose request fails changes no chat and keeps the draft; a
\* send attempted with an empty or whitespace-only draft or without an
\* active chat issues no request, changes no chat and keeps the draft; and
\* the draft changes only when the user edits it or a send succeeds, which
\* clears it.
C34_FailedSendKeepsDraft ==
    [][/\ SendResponse(FALSE) => (chats' = chats /\ message' = message)
       /\ (SendMessage /\ (trim(message) = <<>> \/ activeChat = 0))
            => /\ chats' = chats /\ message' = message
               /\ send' = send /\ isTyping' = isTyping
       /\ message' # message
            => \/ SendResponse(TRUE) /\ message' = <<>>
               \/ \E d \in Drafts : SetMessage(d)]_vars

\* A send with a draft is waiting for its response and the backend has not
\* stored it: the request can only fail.
C34_Witness ==
    /\ send.st = "inflight" /\ send.pair = <<>> /\ Live
    /\ message = send.text /\ trim(message) # <<>>
    /\ ChatIndex(chats, send.chat) # {}

\* C35: the auto-create effect becomes due only by a chat-list response that
\* succeeded and listed no chat; a chat-list request that fails does not
\* make it due, so no chat is created for it.
C35_AutoCreateOnlyOnEmptyList ==
    [][/\ ChatsResponse(FALSE) => ~EffectDue'
       /\ (~EffectDue /\ EffectDue')
            => (ChatsResponse(TRUE) /\ LiveFrom(1) = <<>>)]_vars

\* The response interceptor of slot t's request answers a 401 on a config
\* not yet marked, with a refresh token stored, by a refresh request of its
\* own, whatever the other slots have on the wire.
OwnRefresh(t) ==
    (Handled(t) /\ task[t].ans = "401" /\ ~Last(task[t].frames).retry
        /\ getRefreshToken(store) # 0)
      => /\ task'[t].st = "inflight"
         /\ Last(task'[t].frames).url = "refresh"
         /\ Len(task'[t].frames) >= Len(task[t].frames)

\* The stored access token and refresh token were written from the same
\* response, or both are absent.
TokensPaired == store.access = store.refresh

\* The refresh request of slot t has failed and its response waits for
\* the callbacks, while the store holds the tokens of a refresh that
\* succeeded.
RefreshFailsAfterSuccess(t) ==
    /\ task[t].st = "resp" /\ Len(task[t].frames) > 1 /\ task[t].ans = "err"
    /\ store.access = MaxTok

\* C36: requests answered 401 at overlapping times each run a refresh of
\* their own; the stored access token and refresh token always come from
\* the same response; and when a refresh fails after another refresh has
\* succeeded, the tokens are cleared all the same.
C36_OverlappingRefreshes ==
    /\ []TokensPaired
    /\ [][\A t \in Slots : OwnRefresh(t)]_vars
    /\ \A t \in Slots : RefreshFailsAfterSuccess(t) ~> (store = NoStore)

InOtpFlow(fs) == fs.mode # "signin" /\ fs.otpSent

\* C38: in signup and forgot modes the email of the verify-OTP request and
\* of the final signup or password-reset request is the email of the
\* send-OTP request that succeeded in the same flow: a flow opened by the
\* success of a send-OTP request has the email the request was sent with,
\* the email stays while the flow lasts, and the later requests carry it.
C38_EmailFixedAfterOtp ==
    [][/\ \A i \in DOMAIN authReqs : \A given \in 0..MaxOtpId :
            (authReqs[i].kind = "sendOtp" /\ AuthResponse(i, "success", given))
                => (InOtpFlow(formState')
                      => formState'.email = authReqs[i].email)
       /\ (InOtpFlow(formState) /\ InOtpFlow(formState')
                /\ formState'.mode = formState.mode)
            => formState'.email = formState.email
       /\ \A kind \in {"verifyOtp", "register", "forgotPassword"} :
            AuthIssued(kind)
                => (InOtpFlow(formState)
                      /\ Last(authReqs').email = formState.email)]_vars

\* The handler of some auth request runs after its await in this step.
AuthAnswered ==
    \E i \in DOMAIN authReqs :
        \E outcome \in {"success", "refused", "error"} :
            \E given \in 0..MaxOtpId : AuthResponse(i, outcome, given)

\* One of the mode buttons acts in this step.
ModeSwitched == \E newMode \in {"signin", "signup", "forgot"} : SwitchMode(newMode)

\* C39: in the auth view at most one auth request is in flight at a time:
\* loading is true exactly while a request waits for its response, submit
\* and the mode switches act only while it is false, and the handling of
\* every response (success, success = false, or an exception) sets it
\* back to false.
C39_OneAuthRequestInFlight ==
    /\ [](Len(authReqs) <= 1 /\ (formState.loading <=> authReqs # <<>>))
    /\ [][/\ (AuthSubmit \/ ModeSwitched) => ~formState.loading
          /\ AuthAnswered => ~formState'.loading]_vars

====
